---- MODULE Spec2Model ----
(***************************************************************************)
(* Model of the tracking page (TrackingPage) of the Nivaran front-end:     *)
(* src/frontend/src/components/RescueCard.tsx, lines 149-587.              *)
(*                                                                         *)
(* The page is a React function component.  Its useState cells and useRef  *)
(* cells are the variables below, under the names the source gives them.   *)
(* The browser and the providers (geolocation, Google Maps script,         *)
(* directions service) are the environment: what they hold for the page    *)
(* (active watches, the one-shot read, requests in flight) is state too.   *)
(*                                                                         *)
(* One action is one browser task: an event handler or provider callback,  *)
(* the render its state updates cause and the effects that render re-runs  *)
(* (an effect runs when one of its dependencies changed; setOrigin always  *)
(* stores a new object, so it always changes the dependency `origin`).     *)
(*                                                                         *)
(* The `loading` flag of the page is not modelled: nothing reads it but    *)
(* the "Computing best route" line of the render.                          *)
(***************************************************************************)
EXTENDS Integers, Sequences, FiniteSets, TLC

(***************************************************************************)
(* Optional values: JavaScript null is the empty sequence.                 *)
(***************************************************************************)
None == << >>
Some(x) == << x >>

(***************************************************************************)
(* Coordinates, in microdegrees.  P0 is the origin of the example scenario *)
(* (12.9716, 77.5946); P1 lies 45 microdegrees north of it (about 5 m),    *)
(* P2 230 microdegrees east of it (about 25 m, and 25.4 m from P1).  Dest  *)
(* is the example's destination (12.9352, 77.6245).                        *)
(***************************************************************************)
P0 == [lat |-> 12971600, lng |-> 77594600]
P1 == [lat |-> 12971645, lng |-> 77594600]
P2 == [lat |-> 12971600, lng |-> 77594830]
Positions == {P0, P1, P2}
Dest == [lat |-> 12935200, lng |-> 77624500]

(***************************************************************************)
(* haversineMeters in fixed point.  Angles are in nanoradians, sines and   *)
(* square roots in units of 10^-9, cosines in units of 10^-4, the result   *)
(* in millimetres (metres times FixedPoint).  The model's positions lie    *)
(* within a few hundred microdegrees of each other, so the half angles are *)
(* below 10^4 nanoradians: there Math.sin(x) is x, Math.sqrt(1 - aHarv) is *)
(* 1 and Math.atan2(y, 1) is y, each to less than one unit of the fixed    *)
(* point.  Math.cos of a latitude is its Taylor polynomial of degree 6.    *)
(***************************************************************************)
FixedPoint == 1000
One == 1000000000
R == 6371000

Abs(v) == IF v < 0 THEN 0 - v ELSE v

\* a / b rounded towards zero: floating-point division is symmetric in sign
Div(a, b) == IF a < 0 THEN 0 - ((0 - a) \div b) ELSE a \div b

\* toRad: v microdegrees -> nanoradians (pi / 180 = 0.017453...)
toRad(v) ==
    LET w == Abs(v)
        r == (w \div 1000) * 17453 + ((w % 1000) * 17453) \div 1000
    IN  IF v < 0 THEN 0 - r ELSE r

\* Math.sin for a small angle x (nanoradians), in units of 10^-9
Sin(x) == x

\* Math.cos for an angle x (nanoradians), in units of 10^-4
Cos(x) ==
    LET y  == Div(x, 100000)               \* x in units of 10^-4 rad
        y2 == (y * y) \div 10000           \* x^2 in units of 10^-4
        y4 == (y2 * y2) \div 10000
        y6 == (y4 * y2) \div 10000
    IN  10000 - y2 \div 2 + y4 \div 24 - y6 \div 720

RECURSIVE SqrtIter(_, _)
SqrtIter(n, x) ==
    LET y == (x + n \div x) \div 2
    IN  IF y >= x THEN x ELSE SqrtIter(n, y)

\* Math.sqrt on naturals (floor)
Sqrt(n) == IF n <= 0 THEN 0 ELSE SqrtIter(n, n)

\* Math.atan2(y, x) for x = 1 (One) and a small y, in nanoradians
Atan2(y, x) == IF x = One THEN y ELSE (y * (One \div 1000)) \div (x \div 1000)

\* (m * k) / 10000 without overflowing 32 bits
MulE4(m, k) == (m \div 10000) * k + ((m % 10000) * k) \div 10000

haversineMeters(a, b) ==
    LET dLat    == toRad(b.lat - a.lat)
        dLon    == toRad(b.lng - a.lng)
        lat1    == toRad(a.lat)
        lat2    == toRad(b.lat)
        sinDlat == Sin(Div(dLat, 2))
        sinDlon == Sin(Div(dLon, 2))
        \* in units of 10^-18
        aHarv   == sinDlat * sinDlat
                   + MulE4(sinDlon * sinDlon, (Cos(lat1) * Cos(lat2)) \div 10000)
        \* 1 - aHarv is 1 to within 10^-10, its square root is One
        c       == 2 * Atan2(Sqrt(aHarv), One)
    IN  \* R * c: nanoradians times metres, to millimetres
        (c * (R \div 1000)) \div 1000

(***************************************************************************)
(* haversineMeters for coordinates anywhere on the globe.  The numbers of  *)
(* the program are floating point: every operation rounds its result, and  *)
(* Math.sqrt of a negative number is NaN, which every later operation      *)
(* hands on.  Here a number is an integer count of 1/Wide (four decimal    *)
(* digits), every operation rounds to the nearest count, and a result is   *)
(* a record that says whether it is NaN.  Coordinates are in microdegrees, *)
(* multiples of a tenth of a degree, at most 180 degrees apart.            *)
(***************************************************************************)
Wide == 10000
\* Math.PI, in 1/Wide
PiWide == 31416

Num(v) == [nan |-> FALSE, v |-> v]
NaN == [nan |-> TRUE, v |-> 0]

\* a / b rounded to the nearest integer (b > 0)
Round(a, b) == Div(2 * a + (IF a >= 0 THEN b ELSE 0 - b), 2 * b)
MulWide(x, y) == Round(x * y, Wide)

\* (v * Math.PI) / 180, radians in 1/Wide
toRadWide(v) == Round(Div(v, 100000) * 174533, 10000)

\* Math.sin and Math.cos for |x| <= pi/2: the power series, rounded
SinWide(x) ==
    LET x2  == MulWide(x, x)
        t3  == Round(MulWide(x, x2), 6)
        t5  == Round(MulWide(t3, x2), 20)
        t7  == Round(MulWide(t5, x2), 42)
        t9  == Round(MulWide(t7, x2), 72)
        t11 == Round(MulWide(t9, x2), 110)
    IN  x - t3 + t5 - t7 + t9 - t11

CosWide(x) ==
    LET x2  == MulWide(x, x)
        t2  == Round(x2, 2)
        t4  == Round(MulWide(t2, x2), 12)
        t6  == Round(MulWide(t4, x2), 30)
        t8  == Round(MulWide(t6, x2), 56)
        t10 == Round(MulWide(t8, x2), 90)
    IN  Wide - t2 + t4 - t6 + t8 - t10

\* the square root of x >= 0 in 1/Wide, to the nearest count
RootWide(x) ==
    LET n == x * Wide
        r == Sqrt(n)
    IN  IF (r + 1) * (r + 1) - n <= n - r * r THEN r + 1 ELSE r

\* Math.sqrt: NaN for a negative number
SqrtWide(x) == IF x < 0 THEN NaN ELSE Num(RootWide(x))

\* the arc tangent of z, 0 <= z <= 1: the angle is halved twice
\* (tan(t/2) = tan t / (1 + sqrt(1 + tan^2 t))), then the power series
HalfAngle(z) == Round(z * Wide, Wide + RootWide(Wide + MulWide(z, z)))
AtanSmall(z) ==
    LET z2 == MulWide(z, z)
        z3 == MulWide(z, z2)
        z5 == MulWide(z3, z2)
        z7 == MulWide(z5, z2)
    IN  z - Round(z3, 3) + Round(z5, 5) - Round(z7, 7)
Atan01(z) == 4 * AtanSmall(HalfAngle(HalfAngle(z)))

\* Math.atan2(y, x) for y, x >= 0; NaN if either is NaN
Atan2Wide(y, x) ==
    IF y.nan \/ x.nan THEN NaN
    ELSE IF y.v = 0 THEN Num(0)
    ELSE IF x.v = 0 THEN Num(Round(PiWide, 2))
    ELSE IF y.v <= x.v THEN Num(Atan01(Round(y.v * Wide, x.v)))
    ELSE Num(Round(PiWide, 2) - Atan01(Round(x.v * Wide, y.v)))

\* haversineMeters(a, b), in metres
haversineMetersWide(a, b) ==
    LET dLat    == toRadWide(b.lat - a.lat)
        dLon    == toRadWide(b.lng - a.lng)
        lat1    == toRadWide(a.lat)
        lat2    == toRadWide(b.lat)
        sinDlat == SinWide(Div(dLat, 2))
        sinDlon == SinWide(Div(dLon, 2))
        aHarv   == MulWide(sinDlat, sinDlat)
                   + MulWide(MulWide(MulWide(CosWide(lat1), CosWide(lat2)), sinDlon), sinDlon)
        c       == Atan2Wide(SqrtWide(aHarv), SqrtWide(Wide - aHarv))
    IN  IF c.nan THEN NaN ELSE Num(Div((R \div 1000) * 2 * c.v, Wide \div 1000))

\* coordinates on the globe the distance is measured between
Latitudes == {-58000000, -20000000, 0, 20000000, 58000000}
Longitudes == {-90000000, 0, 90000000}
Globe == {[lat |-> la, lng |-> lo] : la \in Latitudes, lo \in Longitudes}

(***************************************************************************)
(* What the directions provider can answer.  A status other than "OK" is a *)
(* failure.  An "OK" answer carries at least one route with at least one   *)
(* leg, each leg with its distance and duration text.                      *)
(***************************************************************************)
FailStatuses == {"ZERO_RESULTS", "OVER_QUERY_LIMIT"}

Leg(d, t) == [distance |-> [text |-> d], duration |-> [text |-> t]]
ResultA == [routes |-> << [legs |-> << Leg("5.2 km", "14 mins"), Leg("0.3 km", "2 mins") >>] >>]
ResultB == [routes |-> << [legs |-> << Leg("6.0 km", "11 mins") >>],
                          [legs |-> << Leg("5.2 km", "14 mins") >>] >>]
Results == {ResultA, ResultB}

(***************************************************************************)
(* Bounds of the model.                                                    *)
(***************************************************************************)
\* directions requests in flight at once
MaxPending == 2
\* the clock (Date.now()) when the page opens, and how far it runs, in ms
StartTime == 50000
MaxElapsed == 13000
\* time that can pass between two position samples, in ms
Deltas == {2000, 11000}
\* navigations to the dashboard that can be scheduled at once
MaxNavTimers == 1

(***************************************************************************)
(* The state.                                                              *)
(***************************************************************************)
VARIABLES
    \* useState cells of TrackingPage
    origin, destination, mapReady, routeInfo, error, liveTracking,
    \* useRef cells
    watchIdRef, lastPositionRef, lastRouteTimestampRef,
    googleMapRef, directionsRendererRef, directionsServiceRef, currentMarkerRef,
    \* the map surface: the route the renderer shows, the destination marker
    renderedRoute, destMarker,
    \* the environment
    phase,          \* "init" (before the first effects), "mounted", "unmounted"
    googleKey,      \* GOOGLE_KEY is set
    geolocation,    \* "geolocation" in navigator
    script,         \* the Google Maps script: "absent", "foreign" (the tag of an
                    \* earlier page), "own", "loaded" (window.google.maps), "failed"
    watches,        \* ids of the active watchPosition subscriptions
    oneShot,        \* the getCurrentPosition read: "idle", "pending", "ok", "failed"
    pending,        \* directions requests in flight, oldest first
    now,            \* Date.now()
    toast,          \* the last toast shown ("" for none)
    liveCleanup,    \* the last run of the live-tracking effect returned a cleanup
    \* closing the case
    caseId,         \* the case_id query parameter (None when absent or empty)
    closingCase,    \* useState cell
    closeInFlight,  \* PATCH requests awaiting their response
    navTimers,      \* setTimeout(router.push("/dashboard"), 1000) not yet fired
    location,       \* the route the router shows
    \* history
    ev,             \* the last task: its name, its input, the computeRouteFrom
                    \* calls it made ("live" from the sample handler, "init"
                    \* from the initialize effect), and for an answered route
                    \* request its place among the requests in flight
    nullCall,       \* computeRouteFrom ran without an origin or a destination
    badClear,       \* clearWatch was called for a watch that is not active
    \* haversineMeters on its own: its arguments and its result (None before
    \* the call)
    havA, havB, havResult,
    \* useState cells of DashboardPage
    caseType, loading, cases, ngoEmail, ngoCoords,
    \* the dashboard's environment
    dashPhase,      \* "init", "mounted", "left"
    authUser,       \* auth.currentUser's email (None when not signed in yet)
    requests,       \* the dashboard's fetches in flight, oldest first
    dashToast,      \* the last toast the dashboard showed
    dashLocation,   \* where the dashboard's router points
    dashEv,         \* the dashboard's last task: its name and its input
    \* useState cells of ReportPage
    imageFile, formData, locationSuggestions, showSuggestions,
    debouncedLocation, isSubmitting, submitted, isAnalyzing, detectionResult,
    \* the report form's environment
    reportPhase,      \* "init", "mounted", "left"
    backendApi,       \* NEXT_PUBLIC_BACKEND_API is set
    mapsKey,          \* NEXT_PUBLIC_GOOGLE_MAPS_API_KEY is set
    debounceTimer,    \* the value the pending 100 ms timer will store
    suggestRequests,  \* autocomplete requests in flight, oldest first
    submitStage,      \* where handleSubmit waits: "idle" when it does not run
    redirectTimers,   \* pending setTimeout(router.push('/'), 5000)
    reportToast,      \* the last toast the form showed
    reportLocation,   \* where the form's router points
    pickedSuggestion  \* a suggestion was picked and the field not edited since

pageVars == << origin, destination, mapReady, routeInfo, error, liveTracking,
           watchIdRef, lastPositionRef, lastRouteTimestampRef,
           googleMapRef, directionsRendererRef, directionsServiceRef,
           currentMarkerRef, renderedRoute, destMarker,
           phase, googleKey, geolocation, script, watches, oneShot, pending,
           now, toast, liveCleanup, caseId, closingCase, closeInFlight,
           navTimers, location, ev, nullCall, badClear >>

havVars == << havA, havB, havResult >>

dashVars == << caseType, loading, cases, ngoEmail, ngoCoords, dashPhase,
              authUser, requests, dashToast, dashLocation, dashEv >>

reportVars == << imageFile, formData, locationSuggestions, showSuggestions,
                debouncedLocation, isSubmitting, submitted, isAnalyzing,
                detectionResult, reportPhase, backendApi, mapsKey,
                debounceTimer, suggestRequests, submitStage, redirectTimers,
                reportToast, reportLocation, pickedSuggestion >>

vars == << pageVars, havVars, dashVars, reportVars >>

\* what never changes after construction: setDestination is never called
envVars == << destination, googleKey, geolocation, caseId >>

Event(name, arg, calls) ==
    [name |-> name, arg |-> arg, calls |-> calls, answered |-> 0]

\* the cells of a page that has not run its first effects
Fresh ==
    /\ mapReady = FALSE
    /\ routeInfo = None
    /\ error = None
    /\ liveTracking = FALSE
    /\ watchIdRef = None
    /\ lastPositionRef = None
    /\ lastRouteTimestampRef = 0
    /\ googleMapRef = FALSE
    /\ directionsRendererRef = FALSE
    /\ directionsServiceRef = FALSE
    /\ currentMarkerRef = None
    /\ renderedRoute = None
    /\ destMarker = FALSE
    /\ phase = "init"
    /\ watches = {}
    /\ oneShot = "idle"
    /\ pending = << >>
    /\ now = StartTime
    /\ toast = ""
    /\ liveCleanup = FALSE
    /\ closingCase = FALSE
    /\ closeInFlight = 0
    /\ navTimers = 0
    /\ location = "/tracking"
    /\ ev = Event("Init", None, << >>)
    /\ nullCall = FALSE
    /\ badClear = FALSE

\* haversineMeters is not being measured on its own
NoMeasure == havA = P0 /\ havB = P0 /\ havResult = None

\* the cells of a dashboard that has not run its first effect
DashFresh ==
    /\ caseType = "all"
    /\ loading = FALSE
    /\ cases = << >>
    /\ ngoEmail = None
    /\ ngoCoords = None
    /\ dashPhase = "init"
    /\ requests = << >>
    /\ dashToast = ""
    /\ dashLocation = [path |-> "/dashboard", query |-> None]
    /\ dashEv = [name |-> "Init", arg |-> None]

\* the dashboard is not open
NoDashboard == DashFresh /\ authUser = None

\* the cells of a report form that has not run its first effects
ReportFresh ==
    /\ imageFile = FALSE
    /\ formData = [location |-> << >>, contactPhone |-> "", severity |-> ""]
    /\ locationSuggestions = << >>
    /\ showSuggestions = FALSE
    /\ debouncedLocation = << >>
    /\ isSubmitting = FALSE
    /\ submitted = FALSE
    /\ isAnalyzing = FALSE
    /\ detectionResult = None
    /\ reportPhase = "init"
    /\ debounceTimer = None
    /\ suggestRequests = << >>
    /\ submitStage = "idle"
    /\ redirectTimers = 0
    /\ reportToast = ""
    /\ reportLocation = "/report"
    /\ pickedSuggestion = FALSE

\* no report form is open
NoReport == ReportFresh /\ backendApi = FALSE /\ mapsKey = FALSE

\* a page opened without case_id (its Close Case button is disabled), with
\* or without the coordinates, in any environment
Init ==
    /\ Fresh
    /\ origin \in {None, Some(P0)}
    /\ destination \in {None, Some(Dest)}
    /\ googleKey \in BOOLEAN
    /\ geolocation \in BOOLEAN
    /\ script \in {"absent", "foreign", "loaded"}
    /\ caseId = None
    /\ NoMeasure
    /\ NoDashboard
    /\ NoReport

(***************************************************************************)
(* A task works on a record of the mutable state and commits it at its end.*)
(***************************************************************************)
Cur ==
    [origin |-> origin, mapReady |-> mapReady, routeInfo |-> routeInfo,
     error |-> error, liveTracking |-> liveTracking,
     watchIdRef |-> watchIdRef, lastPositionRef |-> lastPositionRef,
     lastRouteTimestampRef |-> lastRouteTimestampRef,
     googleMapRef |-> googleMapRef,
     directionsRendererRef |-> directionsRendererRef,
     directionsServiceRef |-> directionsServiceRef,
     currentMarkerRef |-> currentMarkerRef,
     renderedRoute |-> renderedRoute, destMarker |-> destMarker,
     script |-> script, watches |-> watches, oneShot |-> oneShot,
     pending |-> pending, toast |-> toast, liveCleanup |-> liveCleanup,
     closingCase |-> closingCase, closeInFlight |-> closeInFlight,
     navTimers |-> navTimers, location |-> location,
     nullCall |-> nullCall, badClear |-> badClear,
     calls |-> << >>, answered |-> 0]

Commit(s, name, arg) ==
    /\ origin' = s.origin
    /\ mapReady' = s.mapReady
    /\ routeInfo' = s.routeInfo
    /\ error' = s.error
    /\ liveTracking' = s.liveTracking
    /\ watchIdRef' = s.watchIdRef
    /\ lastPositionRef' = s.lastPositionRef
    /\ lastRouteTimestampRef' = s.lastRouteTimestampRef
    /\ googleMapRef' = s.googleMapRef
    /\ directionsRendererRef' = s.directionsRendererRef
    /\ directionsServiceRef' = s.directionsServiceRef
    /\ currentMarkerRef' = s.currentMarkerRef
    /\ renderedRoute' = s.renderedRoute
    /\ destMarker' = s.destMarker
    /\ script' = s.script
    /\ watches' = s.watches
    /\ oneShot' = s.oneShot
    /\ pending' = s.pending
    /\ toast' = s.toast
    /\ liveCleanup' = s.liveCleanup
    /\ closingCase' = s.closingCase
    /\ closeInFlight' = s.closeInFlight
    /\ navTimers' = s.navTimers
    /\ location' = s.location
    /\ nullCall' = s.nullCall
    /\ badClear' = s.badClear
    /\ ev' = [Event(name, arg, s.calls) EXCEPT !.answered = s.answered]
    /\ Len(s.pending) <= MaxPending
    /\ UNCHANGED envVars
    /\ UNCHANGED havVars
    /\ UNCHANGED dashVars
    /\ UNCHANGED reportVars

\* window.google && window.google.maps
GoogleLoaded(s) == s.script = "loaded"

(***************************************************************************)
(* computeRouteFrom(usedOrigin).  `by` names the caller for the history.   *)
(* Reading .lat of a null origin or destination throws before the request  *)
(* is sent.                                                                *)
(***************************************************************************)
\* computeRouteFrom that routes from the origin of the last render
computeRouteFromStateOrigin(s, usedOrigin, by) ==
    IF ~GoogleLoaded(s)
    THEN [s EXCEPT !.error = Some("Google Maps is not available.")]
    ELSE LET s1 == [s EXCEPT !.directionsServiceRef = TRUE,
                             !.directionsRendererRef = TRUE]
         IN  IF usedOrigin = None \/ destination = None
             THEN [s1 EXCEPT !.nullCall = TRUE]
             ELSE [s1 EXCEPT !.pending = Append(@, [origin |-> IF origin # None
                                                               THEN origin[1]
                                                               ELSE usedOrigin[1],
                                                    destination |-> destination[1],
                                                    travelMode |-> "DRIVING",
                                                    provideRouteAlternatives |-> FALSE]),
                             !.calls = Append(@, by)]

computeRouteFrom(s, usedOrigin, by) ==
    IF ~GoogleLoaded(s)
    THEN [s EXCEPT !.error = Some("Google Maps is not available.")]
    ELSE LET s1 == [s EXCEPT !.directionsServiceRef = TRUE,
                             !.directionsRendererRef = TRUE]
         IN  IF usedOrigin = None \/ destination = None
             THEN [s1 EXCEPT !.nullCall = TRUE]
             ELSE [s1 EXCEPT !.pending = Append(@, [origin |-> usedOrigin[1],
                                                    destination |-> destination[1],
                                                    travelMode |-> "DRIVING",
                                                    provideRouteAlternatives |-> FALSE]),
                             !.calls = Append(@, by)]

(***************************************************************************)
(* The initialize effect (dependencies mapReady, destination, origin).     *)
(* initializeMap is the part of initialize() after the one-shot read, with *)
(* `o` the origin of the render that started this run of the effect: a run *)
(* that waited for the one-shot read still sees the null origin it started *)
(* with.  mapRef.current is the map's element, present while mounted.      *)
(***************************************************************************)
\* initializeMap that forgets the route computation
initializeMapNoRoute(s, o) ==
    IF ~GoogleLoaded(s)
    THEN [s EXCEPT !.error = Some("Google Maps is not available.")]
    ELSE LET s1 == [s EXCEPT !.googleMapRef = TRUE,
                             !.directionsRendererRef = TRUE,
                             !.directionsServiceRef = TRUE,
                             !.currentMarkerRef = IF @ = None /\ o # None THEN o ELSE @]
         IN  IF o # None THEN s1 ELSE [s1 EXCEPT !.destMarker = TRUE]

\* initializeMap that treats a missing origin as an error of the session
initializeMapOriginRequired(s, o) ==
    IF ~GoogleLoaded(s)
    THEN [s EXCEPT !.error = Some("Google Maps is not available.")]
    ELSE LET s1 == [s EXCEPT !.googleMapRef = TRUE,
                             !.directionsRendererRef = TRUE,
                             !.directionsServiceRef = TRUE,
                             !.currentMarkerRef = IF @ = None /\ o # None THEN o ELSE @]
         IN  IF o # None
             THEN computeRouteFrom(s1, o, "init")
             ELSE [s1 EXCEPT !.error = Some("Origin coordinates are missing.")]

initializeMap(s, o) ==
    IF ~GoogleLoaded(s)
    THEN [s EXCEPT !.error = Some("Google Maps is not available.")]
    ELSE LET s1 == [s EXCEPT !.googleMapRef = TRUE,
                             !.directionsRendererRef = TRUE,
                             !.directionsServiceRef = TRUE,
                             !.currentMarkerRef = IF @ = None /\ o # None THEN o ELSE @]
         IN  IF o # None
             THEN computeRouteFrom(s1, o, "init")
             ELSE [s1 EXCEPT !.destMarker = TRUE]

initializeEffect(s) ==
    IF ~s.mapReady \/ destination = None
    THEN s
    ELSE IF s.origin = None /\ geolocation
         THEN [s EXCEPT !.oneShot = "pending"]     \* getCurrentPosition, awaited
         ELSE initializeMap(s, s.origin)

(***************************************************************************)
(* The script-loading effect (dependency destination: it runs once).       *)
(***************************************************************************)
\* a script effect that looks for the script tag before the API key
scriptEffectTagFirst(s) ==
    IF destination = None
    THEN [s EXCEPT !.error = Some("Destination coordinates are missing. Open this page with ?lat=<lat>&lng=<lng>.")]
    ELSE IF GoogleLoaded(s)
    THEN [s EXCEPT !.mapReady = TRUE]
    ELSE IF s.script = "foreign"
    THEN s
    ELSE IF ~googleKey
    THEN [s EXCEPT !.error = Some("Google Maps API key is not configured (NEXT_PUBLIC_GOOGLE_MAPS_API_KEY).")]
    ELSE [s EXCEPT !.script = "own"]

scriptEffect(s) ==
    IF destination = None
    THEN [s EXCEPT !.error = Some("Destination coordinates are missing. Open this page with ?lat=<lat>&lng=<lng>.")]
    ELSE IF GoogleLoaded(s)
    THEN [s EXCEPT !.mapReady = TRUE]
    ELSE IF ~googleKey
    THEN [s EXCEPT !.error = Some("Google Maps API key is not configured (NEXT_PUBLIC_GOOGLE_MAPS_API_KEY).")]
    ELSE IF s.script = "foreign"
    THEN s                                     \* poll every 200 ms for window.google
    ELSE [s EXCEPT !.script = "own"]           \* append the script tag

\* the script effect waits for the script (its interval or its onload)
ScriptAwaited == destination # None /\ googleKey

(***************************************************************************)
(* The live-tracking effect (dependency liveTracking).                     *)
(***************************************************************************)
\* navigator.geolocation.clearWatch(id)
clearWatch(s, id) ==
    IF id \in s.watches
    THEN [s EXCEPT !.watches = @ \ {id}]
    ELSE [s EXCEPT !.badClear = TRUE]

\* navigator.geolocation.watchPosition: a new id (ids are opaque tokens)
NewWatchId(s) ==
    CHOOSE i \in 1..(Cardinality(s.watches) + 1) :
        /\ i \notin s.watches
        /\ \A j \in 1..(i - 1) : j \in s.watches

\* a cleanup that leaves the watch running
liveEffectCleanupNoRelease(s) == s

\* the cleanup the effect returns after watchPosition
liveEffectCleanup(s) ==
    IF s.watchIdRef # None
    THEN [clearWatch(s, s.watchIdRef[1]) EXCEPT !.watchIdRef = None]
    ELSE s

\* a body that starts the watch and drops its id
liveEffectBodyDropsId(s) ==
    IF ~s.liveTracking
    THEN [(IF s.watchIdRef # None /\ geolocation
           THEN [clearWatch(s, s.watchIdRef[1]) EXCEPT !.watchIdRef = None]
           ELSE s)
          EXCEPT !.liveCleanup = FALSE]
    ELSE IF ~geolocation
    THEN [s EXCEPT !.toast = "Geolocation not available in this browser.",
                   !.liveTracking = FALSE,
                   !.liveCleanup = FALSE]
    ELSE [s EXCEPT !.watches = @ \cup {NewWatchId(s)},
                   !.liveCleanup = TRUE]

liveEffectBody(s) ==
    IF ~s.liveTracking
    THEN [(IF s.watchIdRef # None /\ geolocation
           THEN [clearWatch(s, s.watchIdRef[1]) EXCEPT !.watchIdRef = None]
           ELSE s)
          EXCEPT !.liveCleanup = FALSE]
    ELSE IF ~geolocation
    THEN [s EXCEPT !.toast = "Geolocation not available in this browser.",
                   !.liveTracking = FALSE,
                   !.liveCleanup = FALSE]
    ELSE LET id == NewWatchId(s)
         IN  [s EXCEPT !.watches = @ \cup {id},
                       !.watchIdRef = Some(id),
                       !.liveCleanup = TRUE]

\* a render with a changed liveTracking: the previous run's cleanup, then the
\* body; a body that calls setLiveTracking(false) causes one more run
liveEffect(s) ==
    LET s0 == IF s.liveCleanup THEN liveEffectCleanup(s) ELSE s
        s1 == liveEffectBody(s0)
    IN  IF s1.liveTracking # s.liveTracking THEN liveEffectBody(s1) ELSE s1

(***************************************************************************)
(* success: the watchPosition handler, for the sample newPos at time t.    *)
(***************************************************************************)
Infinity == 2147483647
MovedThreshold == 20
RouteInterval == 10000

\* the gate with both thresholds required
recomputeBoth(moved, sinceLastRoute) ==
    moved > MovedThreshold * FixedPoint /\ sinceLastRoute > RouteInterval

recompute(moved, sinceLastRoute) ==
    moved > MovedThreshold * FixedPoint \/ sinceLastRoute > RouteInterval

\* success without the check that the map and the service exist
successUnguarded(s, newPos, t) ==
    LET prev  == s.lastPositionRef
        s1    == [s EXCEPT !.lastPositionRef = Some(newPos),
                           !.origin = Some(newPos),
                           !.currentMarkerRef = IF GoogleLoaded(s) THEN Some(newPos) ELSE @]
        moved == IF prev # None THEN haversineMeters(prev[1], newPos) ELSE Infinity
        sinceLastRoute == t - s.lastRouteTimestampRef
    IN  IF moved > MovedThreshold * FixedPoint \/ sinceLastRoute > RouteInterval
        THEN computeRouteFrom([s1 EXCEPT !.lastRouteTimestampRef = t], Some(newPos), "live")
        ELSE s1

\* success that records the sample only when it recomputes the route
successLazy(s, newPos, t) ==
    LET prev  == s.lastPositionRef
        s1    == [s EXCEPT !.lastPositionRef = Some(newPos),
                           !.origin = Some(newPos),
                           !.currentMarkerRef = IF GoogleLoaded(s) THEN Some(newPos) ELSE @]
        moved == IF prev # None THEN haversineMeters(prev[1], newPos) ELSE Infinity
        sinceLastRoute == t - s.lastRouteTimestampRef
    IN  IF recompute(moved, sinceLastRoute)
        THEN LET s2 == [s1 EXCEPT !.lastRouteTimestampRef = t]
             IN  IF s2.directionsServiceRef /\ s2.googleMapRef
                 THEN computeRouteFrom(s2, Some(newPos), "live")
                 ELSE s2
        ELSE s

success(s, newPos, t) ==
    LET prev  == s.lastPositionRef
        s1    == [s EXCEPT !.lastPositionRef = Some(newPos),
                           !.origin = Some(newPos),
                           !.currentMarkerRef = IF GoogleLoaded(s) THEN Some(newPos) ELSE @]
        moved == IF prev # None THEN haversineMeters(prev[1], newPos) ELSE Infinity
        sinceLastRoute == t - s.lastRouteTimestampRef
    IN  IF recompute(moved, sinceLastRoute)
        THEN LET s2 == [s1 EXCEPT !.lastRouteTimestampRef = t]
             IN  IF s2.directionsServiceRef /\ s2.googleMapRef
                 THEN computeRouteFrom(s2, Some(newPos), "live")
                 ELSE s2
        ELSE s1

\* fail that only reports the error
failKeepsTracking(s) ==
    [s EXCEPT !.toast = "Unable to get live position (permission denied or unavailable)."]

\* fail that also forgets the position
failForgetsOrigin(s) ==
    [s EXCEPT !.toast = "Unable to get live position (permission denied or unavailable).",
              !.liveTracking = FALSE,
              !.origin = None,
              !.lastPositionRef = None]

\* fail: the watchPosition error handler
fail(s) ==
    [s EXCEPT !.toast = "Unable to get live position (permission denied or unavailable).",
              !.liveTracking = FALSE]

\* a callback that blanks the summary when the request failed
routeCallbackBlanks(s, result, status) ==
    IF status = "OK"
    THEN [s EXCEPT !.renderedRoute = Some(result),
                   !.routeInfo =
                       LET leg == result.routes[1].legs[1]
                       IN  Some([distanceText |-> leg.distance.text,
                                 durationText |-> leg.duration.text])]
    ELSE [s EXCEPT !.error = Some("Could not compute route: " \o status),
                   !.routeInfo = None,
                   !.renderedRoute = None]

\* a callback that keeps the fields of a summary it already has
routeCallbackMerges(s, result, status) ==
    IF status = "OK"
    THEN [s EXCEPT !.renderedRoute = Some(result),
                   !.routeInfo =
                       LET leg == result.routes[1].legs[1]
                       IN  IF @ = None
                           THEN Some([distanceText |-> leg.distance.text,
                                      durationText |-> leg.duration.text])
                           ELSE Some([distanceText |-> leg.distance.text,
                                      durationText |-> @[1].durationText])]
    ELSE [s EXCEPT !.error = Some("Could not compute route: " \o status)]

(***************************************************************************)
(* The callback of directionsService.route.                                *)
(***************************************************************************)
routeCallback(s, result, status) ==
    IF status = "OK"
    THEN [s EXCEPT !.renderedRoute = Some(result),
                   !.routeInfo =
                       IF Len(result.routes) > 0 /\ Len(result.routes[1].legs) > 0
                       THEN LET leg == result.routes[1].legs[1]
                            IN  Some([distanceText |-> leg.distance.text,
                                      durationText |-> leg.duration.text])
                       ELSE None]
    ELSE [s EXCEPT !.error = Some("Could not compute route: " \o status)]

Remove(q, i) == [j \in 1..(Len(q) - 1) |-> IF j < i THEN q[j] ELSE q[j + 1]]

(***************************************************************************)
(* The tasks.                                                              *)
(***************************************************************************)
\* the first render's effects; a script found loaded sets mapReady, and the
\* render that follows runs the initialize effect
Mount ==
    /\ phase = "init"
    /\ phase' = "mounted"
    /\ now' = now
    /\ LET s1 == scriptEffect(Cur)
           s2 == liveEffectBody(s1)
       IN  Commit(IF s2.mapReady THEN initializeEffect(s2) ELSE s2, "Mount", None)

\* the page is left: the effects' cleanups run
Unmount ==
    /\ phase = "mounted"
    /\ phase' = "unmounted"
    /\ now' = now
    /\ Commit(IF liveCleanup THEN liveEffectCleanup(Cur) ELSE Cur, "Unmount", None)

\* window.google.maps appears (script.onload, or the polling interval sees it)
ScriptLoaded ==
    /\ phase = "mounted"
    /\ script \in {"own", "foreign"}
    /\ UNCHANGED << phase, now >>
    /\ LET s1 == [Cur EXCEPT !.script = "loaded"]
       IN  IF ScriptAwaited
           THEN Commit(initializeEffect([s1 EXCEPT !.mapReady = TRUE]), "ScriptLoaded", None)
           ELSE Commit(s1, "ScriptLoaded", None)

\* script.onerror
ScriptError ==
    /\ phase = "mounted"
    /\ script = "own"
    /\ UNCHANGED << phase, now >>
    /\ Commit([Cur EXCEPT !.script = "failed",
                          !.error = Some("Failed to load Google Maps script.")],
              "ScriptError", None)

\* the user clicks Start / Stop live tracking
Toggle ==
    /\ phase = "mounted"
    /\ UNCHANGED << phase, now >>
    /\ Commit(liveEffect([Cur EXCEPT !.liveTracking = ~@]), "Toggle", None)

\* an active watch delivers a position, dt after the clock was last read
Sample(p, dt) ==
    /\ phase = "mounted"
    /\ watches # {}
    /\ now + dt <= StartTime + MaxElapsed
    /\ now' = now + dt
    /\ phase' = phase
    /\ Commit(initializeEffect(success(Cur, p, now + dt)), "Sample", Some(p))

\* an active watch reports an error
WatchError ==
    /\ phase = "mounted"
    /\ watches # {}
    /\ UNCHANGED << phase, now >>
    /\ LET s1 == fail(Cur)
       IN  Commit(IF s1.liveTracking # liveTracking THEN liveEffect(s1) ELSE s1,
                  "WatchError", None)

\* getCurrentPosition resolves: the awaiting run of initialize() goes on with
\* the null origin it started with; then the render for setOrigin re-runs the
\* initialize effect
OneShotOk(p) ==
    /\ phase = "mounted"
    /\ oneShot = "pending"
    /\ UNCHANGED << phase, now >>
    /\ LET s1 == [Cur EXCEPT !.origin = Some(p),
                             !.lastPositionRef = Some(p),
                             !.oneShot = "ok"]
       IN  Commit(initializeEffect(initializeMap(s1, None)), "OneShotOk", Some(p))

\* getCurrentPosition rejects (error, or the 8 s timeout)
OneShotFail ==
    /\ phase = "mounted"
    /\ oneShot = "pending"
    /\ UNCHANGED << phase, now >>
    /\ Commit(initializeMap([Cur EXCEPT !.oneShot = "failed"], None), "OneShotFail", None)

\* the directions provider answers the i-th request in flight
RouteOk(i, result) ==
    /\ phase = "mounted"
    /\ i \in 1..Len(pending)
    /\ UNCHANGED << phase, now >>
    /\ Commit(routeCallback([Cur EXCEPT !.pending = Remove(@, i),
                                        !.answered = i],
                             result, "OK"),
              "RouteOk", Some(result))

RouteFail(i, status) ==
    /\ phase = "mounted"
    /\ i \in 1..Len(pending)
    /\ UNCHANGED << phase, now >>
    /\ Commit(routeCallback([Cur EXCEPT !.pending = Remove(@, i)], None, status),
              "RouteFail", Some(status))

(***************************************************************************)
(* Closing the case: handleCloseCase and its Close Case button.            *)
(***************************************************************************)
\* the button's disabled attribute
closeDisabled(s) == s.closingCase \/ caseId = None

\* handleCloseCase up to its await: the PATCH request is sent
handleCloseCase(s) ==
    IF caseId = None
    THEN [s EXCEPT !.toast = "No case ID provided"]
    ELSE [s EXCEPT !.closingCase = TRUE,
                   !.closeInFlight = @ + 1]

\* the rest of the try block when response.ok, then finally
closeSucceeded(s) ==
    [s EXCEPT !.closeInFlight = @ - 1,
              !.toast = "Case marked as completed!",
              !.navTimers = @ + 1,
              !.closingCase = FALSE]

\* a failure that leaves the closing flag set
closeFailedNoFinally(s) ==
    [s EXCEPT !.closeInFlight = @ - 1,
              !.toast = "Failed to close case. Please try again."]

\* catch (fetch rejected, or the throw for !response.ok), then finally
closeFailed(s) ==
    [s EXCEPT !.closeInFlight = @ - 1,
              !.toast = "Failed to close case. Please try again.",
              !.closingCase = FALSE]

\* how a close request can fail
CloseFailures == {"not ok", "network error"}

\* the user clicks Close Case
CloseClick ==
    /\ phase = "mounted"
    /\ ~closeDisabled(Cur)
    /\ UNCHANGED << phase, now >>
    /\ Commit(handleCloseCase(Cur), "CloseClick", None)

\* the backend answers OK; the handler goes on even if the page was left
CloseOk ==
    /\ closeInFlight > 0
    /\ navTimers < MaxNavTimers
    /\ UNCHANGED << phase, now >>
    /\ Commit(closeSucceeded(Cur), "CloseOk", None)

\* the backend answers not OK, or the request fails
CloseFail(why) ==
    /\ closeInFlight > 0
    /\ UNCHANGED << phase, now >>
    /\ Commit(closeFailed(Cur), "CloseFail", Some(why))

\* the timer of a successful close fires: router.push("/dashboard") leaves
\* the page, whose effects' cleanups run
NavTimer ==
    /\ navTimers > 0
    /\ phase' = IF phase = "mounted" THEN "unmounted" ELSE phase
    /\ now' = now
    /\ LET s1 == [Cur EXCEPT !.navTimers = @ - 1, !.location = "/dashboard"]
       IN  Commit(IF phase = "mounted" /\ liveCleanup THEN liveEffectCleanup(s1) ELSE s1,
                  "NavTimer", None)

Next ==
    \/ Mount
    \/ Unmount
    \/ ScriptLoaded
    \/ ScriptError
    \/ Toggle
    \/ \E p \in Positions, dt \in Deltas : Sample(p, dt)
    \/ WatchError
    \/ \E p \in Positions : OneShotOk(p)
    \/ OneShotFail
    \/ \E i \in 1..MaxPending, r \in Results : RouteOk(i, r)
    \/ \E i \in 1..MaxPending, st \in FailStatuses : RouteFail(i, st)

Spec == Init /\ [][Next]_vars

\* a page opened from the dashboard for a case: case_id and the case's
\* coordinates are given, the Maps library is in the window
InitClose ==
    /\ Fresh
    /\ origin \in {None, Some(P0)}
    /\ destination = Some(Dest)
    /\ googleKey = TRUE
    /\ geolocation = TRUE
    /\ script = "loaded"
    /\ caseId = Some("42")
    /\ NoMeasure
    /\ NoDashboard
    /\ NoReport

\* one sample fits into MaxElapsed here: the one that opens the time gate
NextClose ==
    \/ Mount
    \/ Unmount
    \/ Toggle
    \/ \E p \in Positions : Sample(p, RouteInterval + 1)
    \/ WatchError
    \/ \E p \in Positions : OneShotOk(p)
    \/ OneShotFail
    \/ \E i \in 1..MaxPending, r \in Results : RouteOk(i, r)
    \/ \E i \in 1..MaxPending, st \in FailStatuses : RouteFail(i, st)
    \/ CloseClick
    \/ CloseOk
    \/ \E why \in CloseFailures : CloseFail(why)
    \/ NavTimer

SpecClose == InitClose /\ [][NextClose]_vars

(***************************************************************************)
(* haversineMeters as a function: any two coordinates of the globe, no     *)
(* page around it.                                                         *)
(***************************************************************************)
InitHav ==
    /\ Fresh
    /\ origin = None
    /\ destination = None
    /\ googleKey = FALSE
    /\ geolocation = FALSE
    /\ script = "absent"
    /\ caseId = None
    /\ havA \in Globe
    /\ havB \in Globe
    /\ havResult = None
    /\ NoDashboard
    /\ NoReport

\* the call haversineMeters(havA, havB)
Measure ==
    /\ havResult = None
    /\ havResult' = Some(haversineMetersWide(havA, havB))
    /\ UNCHANGED << havA, havB, pageVars, dashVars, reportVars >>

NextHav == Measure

SpecHav == InitHav /\ [][NextHav]_vars

(***************************************************************************)
(* The RescueCard component.  A status is a string, here the sequence of   *)
(* its characters; a missing status is the empty sequence, which is falsy  *)
(* like the empty string.                                                  *)
(***************************************************************************)
UpperCase == << "A", "B", "C", "D", "E", "F", "G", "H", "I", "J", "K", "L", "M",
                "N", "O", "P", "Q", "R", "S", "T", "U", "V", "W", "X", "Y", "Z" >>
LowerCase == << "a", "b", "c", "d", "e", "f", "g", "h", "i", "j", "k", "l", "m",
                "n", "o", "p", "q", "r", "s", "t", "u", "v", "w", "x", "y", "z" >>

\* String.prototype.toLowerCase
toLowerCase(str) ==
    [i \in 1..Len(str) |->
        IF \E k \in 1..Len(UpperCase) : UpperCase[k] = str[i]
        THEN LowerCase[CHOOSE k \in 1..Len(UpperCase) : UpperCase[k] = str[i]]
        ELSE str[i]]

\* the status spellings the backend sends
StatusNew == << "N", "e", "w" >>
StatusInProgress == << "I", "n", " ", "P", "r", "o", "g", "r", "e", "s", "s" >>
StatusRESOLVED == << "R", "E", "S", "O", "L", "V", "E", "D" >>
StatusPending == << "P", "e", "n", "d", "i", "n", "g" >>

\* ["resolved", "in progress", "completed", "closed"]
NotActionable ==
    {<< "r", "e", "s", "o", "l", "v", "e", "d" >>,
     << "i", "n", " ", "p", "r", "o", "g", "r", "e", "s", "s" >>,
     << "c", "o", "m", "p", "l", "e", "t", "e", "d" >>,
     << "c", "l", "o", "s", "e", "d" >>}

\* isActionable that compares the status as it is spelled
isActionableAsSpelled(rescue) == rescue.status \notin NotActionable

\* statusNormalized and isActionable
isActionable(rescue) == toLowerCase(rescue.status) \notin NotActionable

\* the buttons in the footer of the card rendered for props
RescueCard(props) ==
    [takeAction |-> props.onTakeAction /\ isActionable(props.rescue),
     track      |-> props.onTrack /\ props.showTrackButton]

(***************************************************************************)
(* The dashboard (DashboardPage).  Images, the filters of the list and     *)
(* the map view are left out: every case that passes the tab's filter has  *)
(* its card.                                                               *)
(***************************************************************************)
\* fetches the dashboard can have in flight at once
MaxRequests == 2

Email == "ngo@example.org"

\* cases as the backend sends them
CaseA == [case_id |-> "c1", status |-> None,
          latitude |-> Some(Dest.lat), longitude |-> Some(Dest.lng)]
CaseB == [case_id |-> "c2", status |-> StatusInProgress,
          latitude |-> Some(Dest.lat), longitude |-> Some(Dest.lng)]
CaseC == [case_id |-> "c3", status |-> StatusRESOLVED,
          latitude |-> None, longitude |-> None]
CaseD == [case_id |-> "c4", status |-> StatusPending,
          latitude |-> Some(Dest.lat), longitude |-> Some(Dest.lng)]
CaseLists == {<< CaseA, CaseB >>, << CaseC, CaseD >>}

\* what a case-list request can be answered with
CaseAnswers ==
    {[kind |-> k, list |-> << >>] : k \in {"not ok", "not array", "network error"}}
    \cup {[kind |-> "array", list |-> l] : l \in CaseLists}

\* what GET /ngos resolves the email to
NgoAnswers == {None, Some(P0)}

TakeActionAnswers == {"ok", "not ok", "network error"}

DCur ==
    [caseType |-> caseType, loading |-> loading, cases |-> cases,
     ngoEmail |-> ngoEmail, ngoCoords |-> ngoCoords, dashPhase |-> dashPhase,
     authUser |-> authUser, requests |-> requests, dashToast |-> dashToast,
     dashLocation |-> dashLocation]

DCommit(d, name, arg) ==
    /\ caseType' = d.caseType
    /\ loading' = d.loading
    /\ cases' = d.cases
    /\ ngoEmail' = d.ngoEmail
    /\ ngoCoords' = d.ngoCoords
    /\ dashPhase' = d.dashPhase
    /\ authUser' = d.authUser
    /\ requests' = d.requests
    /\ dashToast' = d.dashToast
    /\ dashLocation' = d.dashLocation
    /\ dashEv' = [name |-> name, arg |-> arg]
    /\ Len(d.requests) <= MaxRequests
    /\ UNCHANGED << pageVars, havVars, reportVars >>

\* a fetch in flight, with what the rest of its handler uses: the email, and
\* for take-action the case and the caseType of the render that was clicked
Request(kind, email, id, ct, next) ==
    [kind |-> kind, email |-> email, id |-> id, caseType |-> ct, next |-> next]

\* fetchNearbyCases / fetchOngoingCases up to the await of fetch; `next`
\* names what the caller awaits it for
fetchCases(d, kind, email, next) ==
    [d EXCEPT !.loading = TRUE,
              !.requests = Append(@, Request(kind, email, "", "", next))]

\* fetchNgoCoordsByEmail up to the await of fetch
fetchNgoCoordsByEmail(d, email) ==
    [d EXCEPT !.requests = Append(@, Request("ngos", email, "", "", ""))]

\* the body of the effect on caseType, for the signed-in user's email
loadFor(d, email) ==
    LET d1 == [d EXCEPT !.ngoEmail = Some(email)]
        d2 == fetchCases(d1, IF d.caseType = "all" THEN "nearby" ELSE "ongoing", email, "")
    IN  fetchNgoCoordsByEmail(d2, email)

\* the effect on mount and on a change of caseType
caseTypeEffect(d) ==
    IF d.authUser # None THEN loadFor(d, d.authUser[1]) ELSE d

\* the item of fetchOngoingCases' answer, as it is stored
ongoingItem(item) ==
    [item EXCEPT !.status = IF @ = << >> THEN StatusInProgress ELSE @]

\* the rest of fetchNearbyCases / fetchOngoingCases
casesAnswered(d, req, ans) ==
    LET what == IF req.kind = "nearby" THEN "nearby" ELSE "ongoing"
        d1 == IF ans.kind = "not ok"
              THEN [d EXCEPT !.dashToast = "Failed to load " \o what \o " cases",
                             !.cases = << >>]
              ELSE IF ans.kind = "not array"
              THEN [d EXCEPT !.dashToast = "Unexpected response shape from backend",
                             !.cases = << >>]
              ELSE IF ans.kind = "network error"
              THEN [d EXCEPT !.dashToast = "Network error while loading " \o what \o " cases",
                             !.cases = << >>]
              ELSE [d EXCEPT !.cases = IF req.kind = "nearby"
                                       THEN ans.list
                                       ELSE [i \in 1..Len(ans.list) |-> ongoingItem(ans.list[i])]]
        d2 == [d1 EXCEPT !.loading = FALSE]
    IN  IF req.next = "ngos" THEN fetchNgoCoordsByEmail(d2, req.email) ELSE d2

\* the rescue the dashboard makes of a case
rescueOf(caseItem) ==
    [id |-> caseItem.case_id,
     status |-> IF caseItem.status = << >> THEN StatusNew ELSE caseItem.status,
     latitude |-> caseItem.latitude,
     longitude |-> caseItem.longitude]

Finished == {<< "c", "o", "m", "p", "l", "e", "t", "e", "d" >>,
             << "r", "e", "s", "o", "l", "v", "e", "d" >>,
             << "c", "l", "o", "s", "e", "d" >>}

\* the filter of filteredRescues by the tab
inTab(rescue, ct) ==
    IF ct = "ongoing" THEN toLowerCase(rescue.status) \notin Finished
    ELSE IF ct = "completed" THEN toLowerCase(rescue.status) \in Finished
    ELSE TRUE

filteredRescues(d) ==
    SelectSeq([i \in 1..Len(d.cases) |-> rescueOf(d.cases[i])],
              LAMBDA r : inTab(r, d.caseType))

\* the props of the cards the dashboard renders
Cards(d) ==
    IF d.loading
    THEN << >>
    ELSE LET fr == filteredRescues(d)
         IN  [i \in 1..Len(fr) |->
                 [rescue |-> fr[i],
                  onTakeAction |-> d.caseType = "all",
                  onTrack |-> d.caseType = "ongoing",
                  showTrackButton |-> d.caseType = "ongoing"]]

\* cases.find(it => it.case_id === id)
HasCase(d, id) == \E i \in 1..Len(d.cases) : d.cases[i].case_id = id
FindCase(d, id) ==
    d.cases[CHOOSE i \in 1..Len(d.cases) :
                /\ d.cases[i].case_id = id
                /\ \A j \in 1..(i - 1) : d.cases[j].case_id # id]

\* handleTakeAction up to the await of fetch
handleTakeAction(d, id) ==
    IF ~HasCase(d, id)
    THEN [d EXCEPT !.dashToast = "Case not found"]
    ELSE IF d.ngoEmail = None
    THEN [d EXCEPT !.dashToast = "NGO email not set"]
    ELSE [d EXCEPT !.requests =
             Append(@, Request("take-action", d.ngoEmail[1], id, d.caseType, ""))]

\* the rest of handleTakeAction
takeActionAnswered(d, req, ans) ==
    IF ans = "not ok"
    THEN [d EXCEPT !.dashToast = "Failed to take action"]
    ELSE IF ans = "network error"
    THEN [d EXCEPT !.dashToast = "Network error while taking action"]
    ELSE fetchCases([d EXCEPT !.dashToast = "Case #" \o req.id \o " assigned to you!"],
                    IF req.caseType = "all" THEN "nearby" ELSE "ongoing",
                    req.email, "")

\* the address handleTrack navigates to
TrackingUrl(id, c, ngo) ==
    [path |-> "/tracking",
     query |-> Some([case_id |-> id, lat |-> c.latitude[1], lng |-> c.longitude[1],
                     ngo_lat |-> ngo.lat, ngo_lng |-> ngo.lng])]

handleTrack(d, id) ==
    IF ~HasCase(d, id)
    THEN [d EXCEPT !.dashToast = "Case not found"]
    ELSE LET c == FindCase(d, id)
         IN  IF c.latitude = None \/ c.longitude = None
             THEN [d EXCEPT !.dashToast = "Case location not available"]
             ELSE IF d.ngoCoords = None
             THEN [d EXCEPT !.dashToast = "NGO location not available"]
             ELSE [d EXCEPT !.dashLocation = TrackingUrl(id, c, d.ngoCoords[1]),
                            !.dashPhase = "left"]

\* the first render and its effect
DashMount ==
    /\ dashPhase = "init"
    /\ DCommit(caseTypeEffect([DCur EXCEPT !.dashPhase = "mounted"]), "DashMount", None)

\* auth.onAuthStateChanged reports the user
AuthStateChanged ==
    /\ dashPhase = "mounted"
    /\ authUser = None
    /\ DCommit(loadFor([DCur EXCEPT !.authUser = Some(Email)], Email),
               "AuthStateChanged", None)

\* a click on a tab; a changed caseType re-runs the effect
SetCaseType(ct) ==
    /\ dashPhase = "mounted"
    /\ LET d == [DCur EXCEPT !.caseType = ct]
       IN  DCommit(IF ct # caseType THEN caseTypeEffect(d) ELSE d,
                   "SetCaseType", Some(ct))

\* the answer to the i-th request, a case list request (an answer that
\* comes after the dashboard was left changes nothing that is displayed)
CasesAnswer(i, ans) ==
    /\ dashPhase = "mounted"
    /\ i \in 1..Len(requests)
    /\ requests[i].kind \in {"nearby", "ongoing"}
    /\ DCommit(casesAnswered([DCur EXCEPT !.requests = Remove(@, i)], requests[i], ans),
               "CasesAnswer", Some(ans.kind))

\* the answer to the i-th request, GET /ngos
NgosAnswer(i, found) ==
    /\ dashPhase = "mounted"
    /\ i \in 1..Len(requests)
    /\ requests[i].kind = "ngos"
    /\ DCommit([DCur EXCEPT !.requests = Remove(@, i),
                            !.ngoCoords = IF found # None THEN found ELSE @],
               "NgosAnswer", None)

\* a click on Take Action of the j-th card
TakeActionClick(j) ==
    /\ dashPhase = "mounted"
    /\ j \in 1..Len(Cards(DCur))
    /\ RescueCard(Cards(DCur)[j]).takeAction
    /\ DCommit(handleTakeAction(DCur, Cards(DCur)[j].rescue.id),
               "TakeActionClick", Some(Cards(DCur)[j].rescue.id))

\* the answer to the i-th request, POST take-action
TakeActionAnswer(i, ans) ==
    /\ dashPhase = "mounted"
    /\ i \in 1..Len(requests)
    /\ requests[i].kind = "take-action"
    /\ DCommit(takeActionAnswered([DCur EXCEPT !.requests = Remove(@, i)], requests[i], ans),
               "TakeActionAnswer", Some(<< requests[i].id, ans >>))

\* a click on Track of the j-th card
TrackClick(j) ==
    /\ dashPhase = "mounted"
    /\ j \in 1..Len(Cards(DCur))
    /\ RescueCard(Cards(DCur)[j]).track
    /\ DCommit(handleTrack(DCur, Cards(DCur)[j].rescue.id),
               "TrackClick", Some(Cards(DCur)[j].rescue.id))

\* the refresh button
Refresh ==
    /\ dashPhase = "mounted"
    /\ DCommit(IF ngoEmail # None
               THEN fetchCases(DCur, "nearby", ngoEmail[1], "")
               ELSE [DCur EXCEPT !.dashToast = "NGO email not set"],
               "Refresh", None)

\* saveNgoEmail, with the text of the email field
SaveNgoEmail(editingNgoEmail) ==
    /\ dashPhase = "mounted"
    /\ DCommit(IF editingNgoEmail = ""
               THEN [DCur EXCEPT !.dashToast = "Enter an NGO email first"]
               ELSE fetchCases([DCur EXCEPT !.ngoEmail = Some(editingNgoEmail),
                                            !.dashToast = "NGO email saved"],
                               "nearby", editingNgoEmail, "ngos"),
               "SaveNgoEmail", Some(editingNgoEmail))

ClearNgoEmail ==
    /\ dashPhase = "mounted"
    /\ DCommit([DCur EXCEPT !.ngoEmail = None, !.ngoCoords = None, !.cases = << >>],
               "ClearNgoEmail", None)

\* handleSignOut
SignOut ==
    /\ dashPhase = "mounted"
    /\ DCommit([DCur EXCEPT !.dashLocation = [path |-> "/login", query |-> None],
                            !.dashPhase = "left"],
               "SignOut", None)

InitDash ==
    /\ Fresh
    /\ origin = None
    /\ destination = None
    /\ googleKey = FALSE
    /\ geolocation = FALSE
    /\ script = "absent"
    /\ caseId = None
    /\ NoMeasure
    /\ DashFresh
    /\ authUser \in {None, Some(Email)}
    /\ NoReport

NextDash ==
    \/ DashMount
    \/ AuthStateChanged
    \/ \E ct \in {"all", "ongoing", "completed"} : SetCaseType(ct)
    \/ \E i \in 1..MaxRequests, ans \in CaseAnswers : CasesAnswer(i, ans)
    \/ \E i \in 1..MaxRequests, found \in NgoAnswers : NgosAnswer(i, found)
    \/ \E j \in 1..Len(cases) : TakeActionClick(j)
    \/ \E i \in 1..MaxRequests, ans \in TakeActionAnswers : TakeActionAnswer(i, ans)
    \/ \E j \in 1..Len(cases) : TrackClick(j)
    \/ Refresh
    \/ \E e \in {"", Email} : SaveNgoEmail(e)
    \/ ClearNgoEmail
    \/ SignOut

SpecDash == InitDash /\ [][NextDash]_vars

(***************************************************************************)
(* The report form (ReportPage).  A text is the sequence of its            *)
(* characters.  Each fetch, the FileReader and each timer is a task of its *)
(* own; handleSubmit runs from one await to the next.                      *)
(***************************************************************************)
\* autocomplete requests in flight at once
MaxSuggest == 2

Digits == {"0", "1", "2", "3", "4", "5", "6", "7", "8", "9"}

\* s[i..j] matches -?\d+\.\d+
IsDecimal(s, i, j) ==
    LET start == IF s[i] = "-" THEN i + 1 ELSE i
    IN  \E d \in (start + 1)..(j - 1) :
           /\ s[d] = "."
           /\ \A k \in start..(d - 1) : s[k] \in Digits
           /\ \A k \in (d + 1)..j : s[k] \in Digits

\* formData.location.match(/(-?\d+\.\d+)\s*,\s*(-?\d+\.\d+)/) finds a match
coordMatch(s) ==
    \E i, j, k, l \in 1..Len(s) :
       /\ i <= j /\ j < k /\ k <= l
       /\ IsDecimal(s, i, j)
       /\ IsDecimal(s, k, l)
       /\ \E c \in (j + 1)..(k - 1) :
             /\ s[c] = ","
             /\ \A x \in ((j + 1)..(k - 1)) \ {c} : s[x] = " "

\* what the user types into the location field, and what autocomplete offers
TextPlace == << "a", "b", "c" >>
Locations == {<< >>, << "a", "b" >>, TextPlace,
              << "1", ".", "5", ",", "2", ".", "5" >>}

\* an autocomplete answer: a body with its predictions' descriptions, a body
\* with no predictions field, or an error (a failed fetch, a body that is
\* not JSON)
SuggestAnswers ==
    {[kind |-> "predictions", list |-> l] : l \in {<< TextPlace >>, << >>}}
    \cup {[kind |-> k, list |-> << >>] : k \in {"no predictions", "error"}}

\* the outcome of POST /report-case
ReportAnswers == {"not ok", "invalid_image", "pending_review", "network error"}

RCur ==
    [imageFile |-> imageFile, formData |-> formData,
     locationSuggestions |-> locationSuggestions,
     showSuggestions |-> showSuggestions,
     debouncedLocation |-> debouncedLocation,
     isSubmitting |-> isSubmitting, submitted |-> submitted,
     isAnalyzing |-> isAnalyzing, detectionResult |-> detectionResult,
     reportPhase |-> reportPhase, debounceTimer |-> debounceTimer,
     suggestRequests |-> suggestRequests, submitStage |-> submitStage,
     redirectTimers |-> redirectTimers, reportToast |-> reportToast,
     reportLocation |-> reportLocation, pickedSuggestion |-> pickedSuggestion]

RCommit(r) ==
    /\ imageFile' = r.imageFile
    /\ formData' = r.formData
    /\ locationSuggestions' = r.locationSuggestions
    /\ showSuggestions' = r.showSuggestions
    /\ debouncedLocation' = r.debouncedLocation
    /\ isSubmitting' = r.isSubmitting
    /\ submitted' = r.submitted
    /\ isAnalyzing' = r.isAnalyzing
    /\ detectionResult' = r.detectionResult
    /\ reportPhase' = r.reportPhase
    /\ debounceTimer' = r.debounceTimer
    /\ suggestRequests' = r.suggestRequests
    /\ submitStage' = r.submitStage
    /\ redirectTimers' = r.redirectTimers
    /\ reportToast' = r.reportToast
    /\ reportLocation' = r.reportLocation
    /\ pickedSuggestion' = r.pickedSuggestion
    /\ Len(r.suggestRequests) <= MaxSuggest
    /\ UNCHANGED << backendApi, mapsKey >>
    /\ UNCHANGED << pageVars, havVars, dashVars >>

\* getLocationSuggestions up to the await of fetch
getLocationSuggestions(r, input) ==
    IF Len(input) < 3
    THEN [r EXCEPT !.locationSuggestions = << >>, !.showSuggestions = FALSE]
    ELSE [r EXCEPT !.suggestRequests = Append(@, input)]

\* the rest of getLocationSuggestions
suggestionsAnswered(r, ans) ==
    IF ans.kind = "predictions"
    THEN [r EXCEPT !.locationSuggestions = ans.list, !.showSuggestions = TRUE]
    ELSE r

\* the effect on formData.location: the previous timer is cleared and a new
\* one is set for the value of this render
locationEffect(r) == [r EXCEPT !.debounceTimer = Some(r.formData.location)]

\* the effect on debouncedLocation
debouncedEffect(r) ==
    IF Len(r.debouncedLocation) >= 3
    THEN getLocationSuggestions(r, r.debouncedLocation)
    ELSE [r EXCEPT !.locationSuggestions = << >>, !.showSuggestions = FALSE]

handleLocationInputChange(r, value) ==
    [r EXCEPT !.formData.location = value, !.pickedSuggestion = FALSE]

handleSuggestionClick(r, suggestion) ==
    [r EXCEPT !.formData.location = suggestion,
              !.showSuggestions = FALSE,
              !.locationSuggestions = << >>,
              !.pickedSuggestion = TRUE]

\* a render after formData changed: the effect runs when the location did
afterFormData(r) ==
    IF r.formData.location # formData.location THEN locationEffect(r) ELSE r

\* handleSubmit up to its first await
handleSubmit(r) ==
    IF ~r.imageFile
    THEN [r EXCEPT !.reportToast = "Please upload an image"]
    ELSE IF r.formData.location = << >>
    THEN [r EXCEPT !.reportToast = "Please provide a location"]
    ELSE IF r.formData.contactPhone = ""
    THEN [r EXCEPT !.reportToast = "Please provide a contact phone number"]
    ELSE IF r.formData.severity = ""
    THEN [r EXCEPT !.reportToast = "Please select severity level"]
    ELSE [r EXCEPT !.reportToast = "Submitting report...",
                   !.isSubmitting = TRUE,
                   !.isAnalyzing = TRUE,
                   !.detectionResult = None,
                   !.submitStage = IF ~coordMatch(r.formData.location) /\ mapsKey
                                   THEN "geocode"
                                   ELSE "reading"]

\* handleSubmit from the end of toBase64 to the await of the POST
imageRead(r, ok) ==
    IF ~ok
    THEN [r EXCEPT !.reportToast = "Failed to read image file",
                   !.submitStage = "idle"]
    ELSE IF ~backendApi
    THEN [r EXCEPT !.reportToast = "Backend API not configured (NEXT_PUBLIC_BACKEND_API)",
                   !.submitStage = "idle"]
    ELSE [r EXCEPT !.submitStage = "posting"]

\* handleSubmit after the POST
reportAnswered(r, ans) ==
    IF ans = "network error"
    THEN [r EXCEPT !.reportToast = "Network error: failed to submit report",
                   !.isSubmitting = FALSE,
                   !.isAnalyzing = FALSE,
                   !.submitStage = "idle"]
    ELSE IF ans = "not ok"
    THEN [r EXCEPT !.isAnalyzing = FALSE,
                   !.reportToast = "Failed to submit report",
                   !.isSubmitting = FALSE,
                   !.submitStage = "idle"]
    ELSE IF ans = "invalid_image"
    THEN [r EXCEPT !.isAnalyzing = FALSE,
                   !.detectionResult = Some(ans),
                   !.reportToast = "This does not appear to be an animal",
                   !.isSubmitting = FALSE,
                   !.submitStage = "idle"]
    ELSE [r EXCEPT !.isAnalyzing = FALSE,
                   !.detectionResult = Some(ans),
                   !.isSubmitting = FALSE,
                   !.submitted = TRUE,
                   !.reportToast = "Animal detected - case submitted",
                   !.redirectTimers = @ + 1,
                   !.submitStage = "idle"]

\* the first render's effects: the debounce timer is set for the empty
\* location, and the effect on debouncedLocation clears the suggestions
ReportMount ==
    /\ reportPhase = "init"
    /\ RCommit(debouncedEffect(locationEffect([RCur EXCEPT !.reportPhase = "mounted"])))

\* the user edits the location field
TypeLocation(value) ==
    /\ reportPhase = "mounted"
    /\ value # formData.location
    /\ RCommit(afterFormData(handleLocationInputChange(RCur, value)))

\* the 100 ms timer fires: setDebouncedLocation, and the effect on it when
\* the value changed
DebounceFire ==
    /\ reportPhase = "mounted"
    /\ debounceTimer # None
    /\ LET r == [RCur EXCEPT !.debouncedLocation = debounceTimer[1],
                             !.debounceTimer = None]
       IN  RCommit(IF debounceTimer[1] # debouncedLocation THEN debouncedEffect(r) ELSE r)

\* the answer to the i-th autocomplete request
SuggestAnswer(i, ans) ==
    /\ reportPhase = "mounted"
    /\ i \in 1..Len(suggestRequests)
    /\ RCommit(suggestionsAnswered([RCur EXCEPT !.suggestRequests = Remove(@, i)], ans))

\* a click on the k-th suggestion of the dropdown
SuggestionClick(k) ==
    /\ reportPhase = "mounted"
    /\ showSuggestions
    /\ k \in 1..Len(locationSuggestions)
    /\ RCommit(afterFormData(handleSuggestionClick(RCur, locationSuggestions[k])))

\* the location field gets the focus
FocusLocation ==
    /\ reportPhase = "mounted"
    /\ RCommit(IF Len(locationSuggestions) > 0
               THEN [RCur EXCEPT !.showSuggestions = TRUE]
               ELSE RCur)

\* a mouse press outside the field and the dropdown
ClickOutside ==
    /\ reportPhase = "mounted"
    /\ showSuggestions /\ Len(locationSuggestions) > 0
    /\ RCommit([RCur EXCEPT !.showSuggestions = FALSE])

\* handleImageUpload, with the FileReader's onloadend
ImageUpload ==
    /\ reportPhase = "mounted"
    /\ ~imageFile
    /\ RCommit([RCur EXCEPT !.imageFile = TRUE])

\* the user fills or empties the phone field or the severity
ChangeField(field, value) ==
    /\ reportPhase = "mounted"
    /\ formData[field] # value
    /\ RCommit([RCur EXCEPT !.formData[field] = value])

\* the form is submitted; the submit button is disabled while isSubmitting
\* or submitted
SubmitClick ==
    /\ reportPhase = "mounted"
    /\ ~(isSubmitting \/ submitted)
    /\ RCommit(handleSubmit(RCur))

\* the geocoding fetch ends, with or without coordinates or with an error
GeocodeAnswer ==
    /\ reportPhase = "mounted"
    /\ submitStage = "geocode"
    /\ RCommit([RCur EXCEPT !.submitStage = "reading"])

\* the FileReader of toBase64 ends
ImageRead(ok) ==
    /\ reportPhase = "mounted"
    /\ submitStage = "reading"
    /\ RCommit(imageRead(RCur, ok))

\* POST /report-case ends
ReportAnswer(ans) ==
    /\ reportPhase = "mounted"
    /\ submitStage = "posting"
    /\ RCommit(reportAnswered(RCur, ans))

\* the 5 s timer set after a successful submission: router.push('/')
RedirectTimer ==
    /\ reportPhase = "mounted"
    /\ redirectTimers > 0
    /\ RCommit([RCur EXCEPT !.redirectTimers = @ - 1,
                            !.reportLocation = "/",
                            !.reportPhase = "left"])

InitReport ==
    /\ Fresh
    /\ origin = None
    /\ destination = None
    /\ googleKey = FALSE
    /\ geolocation = FALSE
    /\ script = "absent"
    /\ caseId = None
    /\ NoMeasure
    /\ NoDashboard
    /\ ReportFresh
    /\ backendApi \in BOOLEAN
    /\ mapsKey \in BOOLEAN

NextReport ==
    \/ ReportMount
    \/ \E value \in Locations : TypeLocation(value)
    \/ DebounceFire
    \/ \E i \in 1..MaxSuggest, ans \in SuggestAnswers : SuggestAnswer(i, ans)
    \/ \E k \in 1..1 : SuggestionClick(k)
    \/ FocusLocation
    \/ ClickOutside
    \/ ImageUpload
    \/ \E field \in {"contactPhone", "severity"}, value \in {"", "set"} :
          ChangeField(field, value)
    \/ SubmitClick
    \/ GeocodeAnswer
    \/ \E ok \in BOOLEAN : ImageRead(ok)
    \/ \E ans \in ReportAnswers : ReportAnswer(ans)
    \/ RedirectTimer

SpecReport == InitReport /\ [][NextReport]_vars

(***************************************************************************)
(* The route recomputation gate.                                           *)
(***************************************************************************)
\* the sample handler called computeRouteFrom in the task e
LiveCalled(e) == \E k \in 1..Len(e.calls) : e.calls[k] = "live"

\* For a step that delivers a sample: the sample lies more than 20 m from the
\* position recorded before it, or it comes more than 10000 ms after
\* lastRouteTimestampRef.  (Before the first recorded position
\* lastRouteTimestampRef is 0, and the time alone opens the gate.)
GateOpen ==
    \/ /\ lastPositionRef # None
       /\ haversineMeters(lastPositionRef[1], ev'.arg[1]) > 20 * FixedPoint
    \/ now' - lastRouteTimestampRef > 10000

C2_NoRequestBelowGate ==
    [][(ev'.name = "Sample" /\ liveTracking /\ ~GateOpen) =>
          (ev'.calls = << >> /\ pending' = pending)]_vars

(***************************************************************************)
(* The geolocation subscription.                                           *)
(***************************************************************************)
\* C3: every watchPosition subscription is released by exactly one clearWatch
\* call: clearWatch is never called for a watch that is not active, the only
\* active watch is the one watchIdRef holds, and no watch is active once
\* tracking is disabled or the page is torn down.
C3_WatchReleasedOnce ==
    /\ ~badClear
    /\ watches = (IF watchIdRef = None THEN {} ELSE {watchIdRef[1]})
    /\ (~liveTracking \/ phase = "unmounted") => watches = {}

\* C3 witness: the page was torn down while tracking was enabled, and the
\* watch is released.
C3_Witness ==
    /\ phase = "unmounted"
    /\ liveTracking
    /\ watches = {}

\* C5: disabling live tracking unsubscribes from the stream and leaves the
\* rendered route and the summary as they were; while tracking stays
\* disabled, no route recomputation (a request when a route is shown or
\* already requested) is issued.
C5_DisableStopsRecomputation ==
    [][/\ (ev'.name = "Toggle" /\ liveTracking) =>
              /\ ~liveTracking'
              /\ watches' = {}
              /\ routeInfo' = routeInfo
              /\ renderedRoute' = renderedRoute
       /\ (~liveTracking /\ ~liveTracking'
             /\ (renderedRoute # None \/ pending # << >>)) =>
              ev'.calls = << >>]_vars

\* C6: on a stream error live tracking becomes disabled and its subscription
\* is released, the origin keeps its value and an error toast is shown; a
\* subscription is only ever started by the user's toggle.
C6_StreamError ==
    [][/\ ev'.name = "WatchError" =>
              /\ ~liveTracking'
              /\ watches' = {}
              /\ watchIdRef' = None
              /\ origin' = origin
              /\ toast' = "Unable to get live position (permission denied or unavailable)."
       /\ (watches = {} /\ watches' # {}) => ev'.name = "Toggle"]_vars

\* C6 witness: a stream error arrived after a sample had set the origin.
C6_Witness ==
    /\ ev.name = "WatchError"
    /\ origin # None /\ origin = lastPositionRef
    /\ ~liveTracking
    /\ watches = {}

(***************************************************************************)
(* Route computation.                                                      *)
(***************************************************************************)
\* C4: a directions answer with a status other than OK leaves the summary
\* and the rendered route as they were and sets an error message that
\* contains the status.
C4_FailureKeepsRoute ==
    [][ev'.name = "RouteFail" =>
          /\ routeInfo' = routeInfo
          /\ renderedRoute' = renderedRoute
          /\ error' = Some("Could not compute route: " \o ev'.arg[1])]_vars

\* C4 witness: ZERO_RESULTS arrived while a summary was displayed.
C4_Witness ==
    /\ ev.name = "RouteFail"
    /\ ev.arg = Some("ZERO_RESULTS")
    /\ routeInfo # None
    /\ error = Some("Could not compute route: ZERO_RESULTS")

\* C7: computeRouteFrom is only ever called with an origin, on a page that
\* has a destination: every request in flight carries both.
C7_RouteNeedsBothEnds ==
    /\ ~nullCall
    /\ (ev.calls # << >> \/ pending # << >>) => destination # None
    /\ \A i \in 1..Len(pending) :
          /\ pending[i].origin \in Positions
          /\ pending[i].destination = destination[1]

\* C7 witness: one sample made both the handler and the initialize effect
\* call computeRouteFrom.
C7_Witness ==
    /\ ev.name = "Sample"
    /\ ev.calls = << "live", "init" >>
    /\ Len(pending) = 2

\* C8: a directions answer with status OK replaces the rendered route by the
\* result and the summary by the distance and duration text of the first
\* leg of the first route.
C8_SuccessReplacesRoute ==
    [][ev'.name = "RouteOk" =>
          /\ renderedRoute' = ev'.arg
          /\ routeInfo' =
                Some([distanceText |-> ev'.arg[1].routes[1].legs[1].distance.text,
                      durationText |-> ev'.arg[1].routes[1].legs[1].duration.text])]_vars

\* C8 witness: ResultB replaced the route.
C8_Witness ==
    /\ ev.name = "RouteOk"
    /\ renderedRoute = Some(ResultB)
    /\ routeInfo = Some([distanceText |-> "6.0 km", durationText |-> "11 mins"])

(***************************************************************************)
(* The one-shot origin resolution.                                         *)
(***************************************************************************)
\* C9: when the one-shot read succeeds, the origin becomes the coordinate it
\* returned and the same task sends a directions request from that origin
\* to the destination.
C9_OneShotSetsOriginAndRoutes ==
    [][ev'.name = "OneShotOk" =>
          /\ origin' = ev'.arg
          /\ Len(pending') = Len(pending) + 1
          /\ pending'[Len(pending')].origin = ev'.arg[1]
          /\ pending'[Len(pending')].destination = destination[1]]_vars

\* C9 witness: the read returned P1 on a page opened without an origin.
C9_Witness ==
    /\ ev.name = "OneShotOk"
    /\ origin = Some(P1)
    /\ Len(pending) = 1
    /\ pending[1].origin = P1

\* C10: when the one-shot read fails, the origin is left as it was, no
\* directions request is sent, the destination marker is placed and no error
\* is set; a later toggle still starts live tracking.
C10_OneShotFailure ==
    [][/\ ev'.name = "OneShotFail" =>
              /\ origin' = origin
              /\ pending' = pending
              /\ ev'.calls = << >>
              /\ destMarker'
              /\ error' = error
              /\ phase' = "mounted"
       /\ (oneShot = "failed" /\ ~liveTracking /\ ev'.name = "Toggle") =>
              (liveTracking' /\ watches' # {})]_vars

\* C10 witness: the read failed and the page shows the destination alone.
C10_Witness ==
    /\ ev.name = "OneShotFail"
    /\ origin = None
    /\ destMarker
    /\ pending = << >>
    /\ renderedRoute = None
    /\ error = None

(***************************************************************************)
(* A page opened without a destination.                                    *)
(***************************************************************************)
\* C11: a page opened without a destination never starts a geolocation
\* subscription, never initialises the map and never computes a route,
\* whatever the user does.
C11_NoDestinationIsTerminal ==
    destination = None =>
        /\ watches = {}
        /\ ~liveTracking
        /\ ~mapReady
        /\ ~googleMapRef
        /\ pending = << >>
        /\ ~nullCall

(***************************************************************************)
(* The shape of a directions request.                                      *)
(***************************************************************************)
\* the requests the last task sent: the newest Len(calls) entries in flight
Sent(q, e) == [k \in 1..Len(e.calls) |-> q[Len(q) - Len(e.calls) + k]]

\* C12: every directions request a task sends asks for a driving route
\* without alternatives, to the destination of the page, from the origin
\* computeRouteFrom was called with (the sample of the task, or the origin
\* of the render that ran the initialize effect: after the task, both are
\* the page's origin).
C12_RequestShape ==
    [][\A k \in 1..Len(ev'.calls) :
          LET r == Sent(pending', ev')[k]
          IN  /\ r.travelMode = "DRIVING"
              /\ r.provideRouteAlternatives = FALSE
              /\ destination # None
              /\ r.destination = destination[1]
              /\ origin' # None
              /\ r.origin = origin'[1]]_vars

\* C12 witness: the page was opened with both coordinates and its first
\* render sent a driving request between them.
C12_Witness ==
    /\ ev.name = "Mount"
    /\ ev.calls = << "init" >>
    /\ pending = << [origin |-> P0, destination |-> Dest,
                     travelMode |-> "DRIVING",
                     provideRouteAlternatives |-> FALSE] >>

(***************************************************************************)
(* Configuration errors and provider errors.                               *)
(***************************************************************************)
\* the messages of the script-loading effect for a missing destination and
\* for a missing API key
ConfigMessages ==
    {Some("Destination coordinates are missing. Open this page with ?lat=<lat>&lng=<lng>."),
     Some("Google Maps API key is not configured (NEXT_PUBLIC_GOOGLE_MAPS_API_KEY).")}

\* C14 as stated: on a page without a destination or without an API key, a
\* configuration message is set by the first render and stays, the map is
\* never marked ready and no directions request is sent.
C14_ConfigErrorAlways ==
    (phase # "init" /\ (destination = None \/ ~googleKey)) =>
        /\ error \in ConfigMessages
        /\ ~mapReady
        /\ pending = << >>

\* C14: on a page without a destination, or without an API key while the
\* Maps library is not loaded in the window when the page opens, the first
\* render sets a configuration message; a configuration message, once set,
\* stays for the rest of the session, the map is never marked ready and no
\* directions request is sent.
C14_ConfigErrorFatal ==
    [][/\ (/\ phase = "init"
           /\ phase' = "mounted"
           /\ (destination = None \/ (~googleKey /\ script # "loaded")))
          => error' \in ConfigMessages
       /\ error \in ConfigMessages =>
             /\ error' = error
             /\ ~mapReady'
             /\ pending' = << >>
             /\ ev'.calls = << >>
       /\ error' \in ConfigMessages => (~mapReady' /\ pending' = << >>)]_vars

\* C14 witness: without an API key the page shows the message, and the user
\* has started live tracking on it and received a sample.
C14_Witness ==
    /\ ~googleKey
    /\ destination # None
    /\ error = Some("Google Maps API key is not configured (NEXT_PUBLIC_GOOGLE_MAPS_API_KEY).")
    /\ ev.name = "Sample"
    /\ ~mapReady

\* the messages of a directions answer with a status other than OK
RouteErrors == {Some("Could not compute route: " \o st) : st \in FailStatuses}

\* C15: once a directions request has succeeded, the message of an earlier
\* failed request is no longer displayed.
C15_RouteErrorIsTransient ==
    [][ev'.name = "RouteOk" => error' \notin RouteErrors]_vars

(***************************************************************************)
(* Closing the case.                                                       *)
(***************************************************************************)
\* C13: a close request that fails navigates nowhere and schedules no
\* navigation, leaves the origin, the rendered route and the summary as
\* they were, shows the error toast and resets the closing flag, so that
\* the button of the page is enabled again; while a request is in flight
\* the button is disabled, and at most one request is in flight.
C13_FailedCloseIsRetryable ==
    /\ [](/\ closeInFlight <= 1
          /\ (closeInFlight > 0 /\ phase = "mounted") => closeDisabled(Cur))
    /\ [][ev'.name = "CloseFail" =>
             /\ location' = location
             /\ navTimers' = navTimers
             /\ origin' = origin
             /\ renderedRoute' = renderedRoute
             /\ routeInfo' = routeInfo
             /\ toast' = "Failed to close case. Please try again."
             /\ ~closingCase'
             /\ (closingCase' \/ caseId = None) = FALSE
             /\ closeInFlight' = 0]_vars

\* C13 witness: the request failed on a page that shows a route, and the
\* user has asked again.
C13_Witness ==
    /\ ev.name = "CloseClick"
    /\ toast = "Failed to close case. Please try again."
    /\ closeInFlight = 1
    /\ routeInfo # None
    /\ location = "/tracking"

(***************************************************************************)
(* The two ends of the route.                                              *)
(***************************************************************************)
\* C16: no task of the page (first render, one-shot read, sample, toggle,
\* stream error, directions answer, close-case click, answer or navigation,
\* teardown) changes the destination, and an origin that is known stays
\* known.
C16_DestinationFixedOriginKept ==
    [][/\ destination' = destination
       /\ origin # None => origin' # None]_vars

\* C16 witness: the origin came from a sample, and after it the stream
\* failed and a close request failed.
C16_Witness ==
    /\ ev.name = "CloseFail"
    /\ origin = Some(P2)
    /\ destination = Some(Dest)
    /\ toast = "Failed to close case. Please try again."
    /\ ~liveTracking
    /\ lastRouteTimestampRef > StartTime

(***************************************************************************)
(* The distance function.                                                  *)
(***************************************************************************)
\* C17: for all coordinates A and B, haversineMeters(A, B) >= 0 (which NaN
\* is not), and haversineMeters(A, A) = 0.
C17_HaversineNonNegative ==
    havResult # None =>
        /\ ~havResult[1].nan
        /\ havResult[1].v >= 0
        /\ havA = havB => havResult[1].v = 0

(***************************************************************************)
(* The dashboard's cards.                                                  *)
(***************************************************************************)
\* C18: when Take Action was clicked on the card of a case and the backend
\* has accepted it, the dashboard has navigated to /tracking with the
\* case's id and coordinates and the NGO's coordinates in the query.
C18_TakeActionNavigates ==
    [][(dashEv'.name = "TakeActionAnswer" /\ dashEv'.arg[1][2] = "ok") =>
          /\ dashLocation'.path = "/tracking"
          /\ dashLocation'.query # None
          /\ dashLocation'.query[1].case_id = dashEv'.arg[1][1]]_vars

\* C19: a click on Track for a case that has a location, while the NGO's
\* coordinates are not resolved, is not refused.
C19_TrackNotRefused ==
    [][(/\ dashEv'.name = "TrackClick"
        /\ ngoCoords = None
        /\ HasCase(DCur, dashEv'.arg[1])
        /\ FindCase(DCur, dashEv'.arg[1]).latitude # None
        /\ FindCase(DCur, dashEv'.arg[1]).longitude # None)
       => ~(dashToast' = "NGO location not available" /\ dashLocation' = dashLocation)]_vars

\* str is the lower-case word, in any letter case
SameWord(str, word) ==
    /\ Len(str) = Len(word)
    /\ \A i \in 1..Len(str) :
          \/ str[i] = word[i]
          \/ \E k \in 1..Len(UpperCase) : UpperCase[k] = str[i] /\ LowerCase[k] = word[i]

\* C20: a card offers Take Action exactly if a handler is supplied and the
\* status is, in any letter case, none of resolved, completed, closed and
\* in progress; the dashboard supplies the handler exactly in the "all"
\* tab, so that no card of the ongoing or completed tab offers it.
C20_TakeActionOffered ==
    \A j \in 1..Len(Cards(DCur)) :
        LET props == Cards(DCur)[j]
        IN  /\ RescueCard(props).takeAction <=>
                  (/\ props.onTakeAction
                   /\ \A word \in NotActionable : ~SameWord(props.rescue.status, word))
            /\ props.onTakeAction <=> (caseType = "all")
            /\ caseType # "all" => ~RescueCard(props).takeAction

\* C20 witness: the "all" tab shows a case without a status, whose card
\* offers Take Action, and a case "In Progress", whose card does not.
C20_Witness ==
    /\ caseType = "all"
    /\ cases = << CaseA, CaseB >>
    /\ Len(Cards(DCur)) = 2
    /\ RescueCard(Cards(DCur)[1]).takeAction
    /\ ~RescueCard(Cards(DCur)[2]).takeAction

(***************************************************************************)
(* The sample handler: timestamp and position.                             *)
(***************************************************************************)
\* C21: while a directions request is outstanding, a sample that comes
\* after a recomputation, moved at most 20 m and comes at most 10000 ms
\* after lastRouteComputedAt sends no further directions request.
C21_NoStormWhileOutstanding ==
    [][(/\ ev'.name = "Sample"
        /\ pending # << >>
        /\ lastRouteTimestampRef > 0
        /\ ~GateOpen)
       => (ev'.calls = << >> /\ pending' = pending)]_vars

\* C22: every sample becomes the last known position and the displayed
\* origin, and the position of the marker wherever a marker can exist (the
\* Maps library is loaded), whether or not the handler recomputes the route.
C22_SampleAlwaysRecorded ==
    [][ev'.name = "Sample" =>
          /\ lastPositionRef' = ev'.arg
          /\ origin' = ev'.arg
          /\ script = "loaded" => currentMarkerRef' = ev'.arg
          /\ currentMarkerRef' # None => currentMarkerRef' = ev'.arg]_vars

\* C22 witness: a sample below the gate moved the origin and the marker
\* from P0 to P1 without a call from the handler.
C22_Witness ==
    /\ ev.name = "Sample"
    /\ ev.arg = Some(P1)
    /\ ~LiveCalled(ev)
    /\ lastRouteTimestampRef > 0
    /\ origin = Some(P1)
    /\ lastPositionRef = Some(P1)
    /\ currentMarkerRef = Some(P1)

(***************************************************************************)
(* Answers of the directions provider that arrive out of order.            *)
(***************************************************************************)
\* C23: of two requests in flight the newer was answered and its route
\* rendered; the answer to the older one, which comes next, changes neither
\* the rendered route nor the route summary.
C23_OlderAnswerIgnored ==
    [][(/\ ev.name = "RouteOk"
        /\ ev'.name = "RouteOk"
        /\ ev'.answered < ev.answered)
       => (renderedRoute' = renderedRoute /\ routeInfo' = routeInfo)]_vars

(***************************************************************************)
(* The geolocation watch.                                                  *)
(***************************************************************************)
\* C25: at most one watch is active; watchIdRef holds an id exactly when a
\* watch started by watchPosition is not yet cleared, and it is that watch;
\* with liveTracking false (its effect has run) no watch is active.
C25_SingleWatch ==
    /\ Cardinality(watches) <= 1
    /\ (watchIdRef # None) <=> (watches # {})
    /\ watchIdRef # None => watchIdRef[1] \in watches
    /\ ~liveTracking => watches = {}

\* C25 witness: a watch failed and was cleared, tracking was started again
\* and the one watch of the second start has delivered a sample.
C25_Witness ==
    /\ toast = "Unable to get live position (permission denied or unavailable)."
    /\ liveTracking
    /\ ev.name = "Sample"
    /\ watchIdRef # None
    /\ watches = {watchIdRef[1]}

(***************************************************************************)
(* The 10-second window and the uninitialised directions service.          *)
(***************************************************************************)
\* C26: a sample advances lastRouteComputedAt only when the handler sends
\* a directions request for it.
C26_WindowConsumedOnlyByRequest ==
    [][(ev'.name = "Sample" /\ lastRouteTimestampRef' # lastRouteTimestampRef)
       => LiveCalled(ev')]_vars

(***************************************************************************)
(* The one-shot read against the live samples.                             *)
(***************************************************************************)
\* C27: with live tracking enabled and a live sample received, a one-shot
\* read that resolves afterwards changes neither the displayed origin nor
\* the last known position.
C27_StaleOneShotIgnored ==
    [][(ev'.name = "OneShotOk" /\ liveTracking /\ lastPositionRef # None)
       => (origin' = origin /\ lastPositionRef' = lastPositionRef)]_vars

(***************************************************************************)
(* The dashboard's case list against the answers of the backend.           *)
(***************************************************************************)
\* C24: a case-list fetch answered with a body that is not an array leaves
\* the loaded case list as it was.
C24_NonArrayKeepsCases ==
    [][(dashEv'.name = "CasesAnswer" /\ dashEv'.arg = Some("not array"))
       => cases' = cases]_vars

\* the case-list fetches among the requests in flight
CaseFetches(q) == {i \in 1..Len(q) : q[i].kind \in {"nearby", "ongoing"}}

\* the endpoint of a tab: cases-nearby for 'all', ngo-cases for the others
EndpointOf(ct) == IF ct = "all" THEN "nearby" ELSE "ongoing"

\* C29: the loading flag is true whenever a case fetch is in flight, and
\* the list stored by the last case fetch to settle comes from the endpoint
\* of the selected tab.
C29_SettledListMatchesTab ==
    /\ [](CaseFetches(requests) # {} => loading)
    /\ [][(/\ dashEv'.name = "CasesAnswer"
           /\ dashEv'.arg = Some("array")
           /\ CaseFetches(requests') = {})
          => \E i \in CaseFetches(requests) :
                requests[i].kind = EndpointOf(caseType')]_vars

(***************************************************************************)
(* The report form.                                                        *)
(***************************************************************************)
\* C28: when handleSubmit is not running and no submission has succeeded,
\* isSubmitting and isAnalyzing are false; the submit button is disabled
\* only while handleSubmit runs or after a successful submission.
C28_FailedSubmitReenablesButton ==
    /\ (submitStage = "idle" /\ ~submitted) => (~isSubmitting /\ ~isAnalyzing)
    /\ (isSubmitting \/ submitted) => (submitStage # "idle" \/ submitted)

\* C30: every autocomplete request in flight is for a value of length 3 or
\* more, and from the pick of a suggestion until the next edit of the
\* location field the suggestion list is empty and its dropdown is not
\* rendered.
C30_PickedStaysCleared ==
    /\ \A i \in 1..Len(suggestRequests) : Len(suggestRequests[i]) >= 3
    /\ pickedSuggestion =>
          /\ locationSuggestions = << >>
          /\ ~(showSuggestions /\ Len(locationSuggestions) > 0)

====
